---- MODULE Spec2Model ----
(***************************************************************************)
(* Model of the Solana USDC payment API (src/fastapi-solana-api.py): the   *)
(* payment store (db.transactions), the payment lifecycle API and the      *)
(* payment listener with check_payment_received and the webhook notifier.  *)
(*                                                                         *)
(* Conventions                                                             *)
(*  - Optional[x] is a sequence of length <= 1: None is << >>, x is <<x>>. *)
(*  - Amounts and balances are integers in micro-USDC (6 decimals), so     *)
(*    10.00 is 10000000 and 9.999999 is 9999999. Both sides of the         *)
(*    comparison of line 333 are doubles; for 6-decimal values of this     *)
(*    size the doubles are ordered as the micro-unit integers are.         *)
(*  - uuid.uuid4() and Keypair() give fresh values: the n-th record gets   *)
(*    id n and wallet address n.                                           *)
(*  - payment_id n stands for the caller's string "order-n".               *)
(*  - Every server process runs the startup hook and so owns one listener  *)
(*    task; the processes share the one database. Listeners is the set of  *)
(*    these tasks.                                                         *)
(***************************************************************************)
EXTENDS Integers, Sequences, FiniteSets

\* ---------------------------------------------------------------- bounds
\* payments created while one listener runs
MaxPayments == 2
\* payments created while two listeners overlap
MaxOverlapPayments == 1

\* length=100 of the pending fetch (line 296)
ListenerBatch == 100

Listeners == {"L1", "L2"}
\* the POST /api/payments requests callers send: the X-API-Key header and
\* the PaymentRequest body
PaymentRequests ==
  { [x_api_key |-> "key-a", payment_id |-> 1, amount |-> 10000000, metadata |-> <<"meta">>],
    [x_api_key |-> "key-b", payment_id |-> 1, amount |-> 5000000, metadata |-> << >>],
    [x_api_key |-> "bad-key", payment_id |-> 2, amount |-> 5000000, metadata |-> << >>] }
\* what get_token_accounts_by_owner can report for a wallet: the balances of
\* its USDC token accounts, in the order the RPC returns them
AccountLists == {<< >>, <<9999999>>, <<10000000>>, <<9999999, 10000000>>}

\* the values datetime.utcnow() can return: the wall clock of the process
\* that reads it (not monotonic, and not shared between processes)
Times == {0, 1}

None == << >>

\* ------------------------------------------------------------- merchants
\* db.merchants as written by create_merchant: one merchant with a webhook
\* URL and one registered with an empty URL.
merchants ==
  << [merchant_id |-> "MERCH_a", api_key |-> "key-a", webhook_url |-> "https://a.example/hook"],
     [merchant_id |-> "MERCH_b", api_key |-> "key-b", webhook_url |-> ""] >>

VARIABLES
  transactions,    \* db.transactions, in insertion (natural) order
  pc,              \* listener -> where the task stands
  pending_txs,     \* listener -> the batch fetched at line 296
  idx,             \* listener -> position of the for loop of line 298
  accounts,        \* listener -> response.value of line 322
  updated_tx,      \* listener -> Optional result of the find_one of line 345
  notifier_calls,  \* payment id -> listener -> calls of send_webhook_to_merchant
  webhook_posts,   \* payment id -> HTTP POSTs attempted (line 240)
  webhook_payloads,\* payment id -> the payloads built at lines 223-236
  never_funded     \* payment id -> no ledger report yet showed enough for it

vars == <<transactions, pc, pending_txs, idx, accounts, updated_tx,
          notifier_calls, webhook_posts, webhook_payloads, never_funded>>

\* ------------------------------------------------------------ store helpers
\* find_one and update_one act on the first document matching the filter;
\* matching is the set of positions of the documents that match. 0: none.
FirstIndex(matching) ==
  IF matching = {} THEN 0
  ELSE CHOOSE i \in matching : \A j \in matching : i <= j

FindOne(seq, matching) ==
  LET i == FirstIndex(matching) IN IF i = 0 THEN None ELSE <<seq[i]>>

\* the positions of the documents of db.transactions with this id
WithId(txs, id) == {i \in DOMAIN txs : txs[i].id = id}

Range(seq) == {seq[i] : i \in DOMAIN seq}

Take(seq, n) == IF Len(seq) <= n THEN seq ELSE SubSeq(seq, 1, n)

\* db.transactions.find({"status": "pending"}) ... to_list(length=100)
IsPending(t) == t.status = "pending"
\* (mutant) the find without its status filter
FindAll(txs) == Take(txs, ListenerBatch)
FindPending(txs) == Take(SelectSeq(txs, IsPending), ListenerBatch)

\* (mutant) a comparison with a rounding tolerance of one micro-USDC
SufficientWithTolerance(usdc_amount, amount) == usdc_amount + 1 >= amount
\* usdc_amount >= transaction["amount"]
Sufficient(usdc_amount, amount) == usdc_amount >= amount

\* (mutant) the $set without confirmed_at
UpdateOneStatusOnly(txs, id, t) ==
  LET i == FirstIndex(WithId(txs, id)) IN
  [j \in DOMAIN txs |->
     IF j = i THEN [txs[j] EXCEPT !.status = "confirmed"] ELSE txs[j]]
\* (mutant) update_many with the filter {"status": "pending"}
UpdateManyConfirmed(txs, id, t) ==
  [j \in DOMAIN txs |->
     IF txs[j].status = "pending"
     THEN [txs[j] EXCEPT !.status = "confirmed", !.confirmed_at = <<t>>]
     ELSE txs[j]]

\* update_one({"id": id}, {"$set": {"status": "confirmed", "confirmed_at": now}})
UpdateOneConfirmed(txs, id, t) ==
  LET i == FirstIndex(WithId(txs, id)) IN
  [j \in DOMAIN txs |->
     IF j = i THEN [txs[j] EXCEPT !.status = "confirmed", !.confirmed_at = <<t>>]
     ELSE txs[j]]

\* the Payment model built from a stored document (lines 158-168, 192-202,
\* 225-235)
PaymentOf(tx) ==
  [id |-> tx.id, payment_id |-> tx.payment_id, wallet_address |-> tx.wallet_address,
   amount |-> tx.amount, status |-> tx.status, tx_signature |-> tx.tx_signature,
   created_at |-> tx.created_at, confirmed_at |-> tx.confirmed_at,
   metadata |-> tx.metadata]

\* the WebhookPayload of lines 223-236
WebhookPayloadOf(transaction) ==
  [event |-> "payment.confirmed", payment |-> PaymentOf(transaction)]

\* authenticate_merchant
AuthenticateMerchant(x_api_key) ==
  FindOne(merchants, {i \in DOMAIN merchants : merchants[i].api_key = x_api_key})

\* --------------------------------------------------------------------- Init
Init ==
  /\ transactions = << >>
  /\ pc = [l \in Listeners |-> "fetch"]
  /\ pending_txs = [l \in Listeners |-> << >>]
  /\ idx = [l \in Listeners |-> 0]
  /\ accounts = [l \in Listeners |-> << >>]
  /\ updated_tx = [l \in Listeners |-> None]
  /\ notifier_calls = << >>
  /\ webhook_posts = << >>
  /\ webhook_payloads = << >>
  /\ never_funded = << >>

listener_vars == <<pc, pending_txs, idx, accounts, updated_tx>>
history_vars == <<notifier_calls, webhook_posts, webhook_payloads>>

\* --------------------------------------------------------------------- API
\* POST /api/payments
CreatePayment(x_api_key, payment_id, amount, metadata, now) ==
  /\ LET merchant == AuthenticateMerchant(x_api_key)
         n == Len(transactions) + 1
     IN IF merchant = None
        THEN UNCHANGED <<transactions, history_vars, never_funded>>  \* 401
        ELSE /\ notifier_calls' = Append(notifier_calls, [l \in Listeners |-> 0])
             /\ webhook_posts' = Append(webhook_posts, 0)
             /\ webhook_payloads' = Append(webhook_payloads, {})
             /\ never_funded' = Append(never_funded, TRUE)
             /\ transactions' = Append(transactions,
               [id |-> n,
                merchant_id |-> merchant[1].merchant_id,
                payment_id |-> payment_id,
                wallet_address |-> n,
                amount |-> amount,
                status |-> "pending",
                tx_signature |-> None,
                created_at |-> now,
                confirmed_at |-> None,
                metadata |-> metadata])
  /\ UNCHANGED listener_vars

\* ---------------------------------------------------------------- listener
\* The task of start_payment_listener.payment_listener. pc[l] is
\*   "fetch"        about to run the find of lines 295-296
\*   "get_accounts" in check_payment_received, about to call
\*                  get_token_accounts_by_owner (line 316)
\*   "get_balance"  about to call get_token_account_balance (line 328)
\*   "update"       balance was enough, about to call update_one (line 336)
\*   "find_updated" about to call find_one (line 345)
\*   "webhook"      about to call send_webhook_to_merchant (line 348)
\*   "sleep15"      in asyncio.sleep(15) (line 303)
\*   "sleep30"      in asyncio.sleep(30) (line 306)

\* the transaction check_payment_received was called with
CurrentTx(l) == pending_txs[l][idx[l]]

\* check_payment_received returned (normally, or through its except of line
\* 352): the for loop takes the next record, or the batch is over and the
\* task sleeps 15 s.
NextRecord(l) ==
  /\ updated_tx' = [updated_tx EXCEPT ![l] = None]
  /\ accounts' = [accounts EXCEPT ![l] = << >>]
  /\ IF idx[l] < Len(pending_txs[l])
     THEN /\ idx' = [idx EXCEPT ![l] = @ + 1]
          /\ pc' = [pc EXCEPT ![l] = "get_accounts"]
          /\ UNCHANGED pending_txs
     ELSE /\ idx' = [idx EXCEPT ![l] = 0]
          /\ pc' = [pc EXCEPT ![l] = "sleep15"]
          /\ pending_txs' = [pending_txs EXCEPT ![l] = << >>]

\* lines 295-298: fetch the pending batch and enter the for loop
FetchPending(l) ==
  /\ pc[l] = "fetch"
  /\ LET batch == FindPending(transactions) IN
       IF batch = << >>
       THEN /\ pc' = [pc EXCEPT ![l] = "sleep15"]
            /\ UNCHANGED <<pending_txs, idx>>
       ELSE /\ pc' = [pc EXCEPT ![l] = "get_accounts"]
            /\ pending_txs' = [pending_txs EXCEPT ![l] = batch]
            /\ idx' = [idx EXCEPT ![l] = 1]
  /\ UNCHANGED <<transactions, accounts, updated_tx, history_vars, never_funded>>

\* (mutant) a loop without the try/except of lines 292 and 304: the error of
\* the find ends the listener task
FetchPendingFailsEndsTask(l) ==
  /\ pc[l] = "fetch"
  /\ pc' = [pc EXCEPT ![l] = "done"]
  /\ UNCHANGED <<transactions, pending_txs, idx, accounts, updated_tx,
                 history_vars, never_funded>>

\* the find of lines 295-296 raises: except of line 304, sleep 30 s
FetchPendingFails(l) ==
  /\ pc[l] = "fetch"
  /\ pc' = [pc EXCEPT ![l] = "sleep30"]
  /\ UNCHANGED <<transactions, pending_txs, idx, accounts, updated_tx,
                 history_vars, never_funded>>

\* lines 316-324: the ledger reports the wallet's token accounts accts. No
\* token account yet: return; otherwise go on to the balance of the first.
GetTokenAccounts(l, accts) ==
  /\ pc[l] = "get_accounts"
  /\ IF accts = << >>
     THEN NextRecord(l)
     ELSE /\ pc' = [pc EXCEPT ![l] = "get_balance"]
          /\ accounts' = [accounts EXCEPT ![l] = accts]
          /\ UNCHANGED <<pending_txs, idx, updated_tx>>
  /\ never_funded' = [never_funded EXCEPT
        ![CurrentTx(l).id] = @ /\ (accts = << >> \/ accts[1] < CurrentTx(l).amount)]
  /\ UNCHANGED <<transactions, history_vars>>

\* (mutant) check_payment_received without its try/except: the error of the
\* RPC call reaches the except of the listener loop, which drops the batch
GetTokenAccountsFailsPropagates(l) ==
  /\ pc[l] = "get_accounts"
  /\ pc' = [pc EXCEPT ![l] = "sleep30"]
  /\ idx' = [idx EXCEPT ![l] = 0]
  /\ pending_txs' = [pending_txs EXCEPT ![l] = << >>]
  /\ UNCHANGED <<transactions, accounts, updated_tx, history_vars, never_funded>>

\* the RPC call of line 316 raises (unreachable, rate limit, timeout)
GetTokenAccountsFails(l) ==
  /\ pc[l] = "get_accounts"
  /\ NextRecord(l)
  /\ UNCHANGED <<transactions, history_vars, never_funded>>

\* (mutant) the balances of all the token accounts summed
GetTokenAccountBalanceSummed(l) ==
  /\ pc[l] = "get_balance"
  /\ LET usdc_amount == accounts[l][1] +
                         (IF Len(accounts[l]) > 1 THEN accounts[l][2] ELSE 0) IN
       IF Sufficient(usdc_amount, CurrentTx(l).amount)
       THEN /\ pc' = [pc EXCEPT ![l] = "update"]
            /\ accounts' = [accounts EXCEPT ![l] = << >>]
            /\ UNCHANGED <<pending_txs, idx, updated_tx>>
       ELSE NextRecord(l)
  /\ UNCHANGED <<transactions, history_vars, never_funded>>

\* lines 327-333: the balance of accounts[0] and the comparison
GetTokenAccountBalance(l) ==
  /\ pc[l] = "get_balance"
  /\ LET usdc_amount == accounts[l][1] IN
       IF Sufficient(usdc_amount, CurrentTx(l).amount)
       THEN /\ pc' = [pc EXCEPT ![l] = "update"]
            /\ accounts' = [accounts EXCEPT ![l] = << >>]
            /\ UNCHANGED <<pending_txs, idx, updated_tx>>
       ELSE NextRecord(l)
  /\ UNCHANGED <<transactions, history_vars, never_funded>>

\* the RPC call of line 328 raises, or ui_amount is null and float() raises
GetTokenAccountBalanceFails(l) ==
  /\ pc[l] = "get_balance"
  /\ NextRecord(l)
  /\ UNCHANGED <<transactions, history_vars, never_funded>>

\* (mutant) an update_one whose filter matches no document: nothing is
\* written, and the code goes on as it does after every update_one
UpdateOneMatchesNothing(l, now) ==
  /\ pc[l] = "update"
  /\ pc' = [pc EXCEPT ![l] = "find_updated"]
  /\ UNCHANGED <<transactions, pending_txs, idx, accounts, updated_tx,
                 history_vars, never_funded>>

\* lines 335-342
UpdateOne(l, now) ==
  /\ pc[l] = "update"
  /\ transactions' = UpdateOneConfirmed(transactions, CurrentTx(l).id, now)
  /\ pc' = [pc EXCEPT ![l] = "find_updated"]
  /\ UNCHANGED <<pending_txs, idx, accounts, updated_tx, history_vars, never_funded>>

\* update_one raises: nothing is written
UpdateOneFails(l) ==
  /\ pc[l] = "update"
  /\ NextRecord(l)
  /\ UNCHANGED <<transactions, history_vars, never_funded>>

\* (mutant) the notifier is handed the document as fetched before the update
FindUpdatedStale(l) ==
  /\ pc[l] = "find_updated"
  /\ updated_tx' = [updated_tx EXCEPT ![l] = <<CurrentTx(l)>>]
  /\ pc' = [pc EXCEPT ![l] = "webhook"]
  /\ UNCHANGED <<transactions, pending_txs, idx, accounts, history_vars, never_funded>>

\* line 345
FindUpdated(l) ==
  /\ pc[l] = "find_updated"
  /\ updated_tx' = [updated_tx EXCEPT
        ![l] = FindOne(transactions, WithId(transactions, CurrentTx(l).id))]
  /\ pc' = [pc EXCEPT ![l] = "webhook"]
  /\ UNCHANGED <<transactions, pending_txs, idx, accounts, history_vars, never_funded>>

\* find_one raises: the except of line 352 ends check_payment_received
FindUpdatedFails(l) ==
  /\ pc[l] = "find_updated"
  /\ NextRecord(l)
  /\ UNCHANGED <<transactions, history_vars, never_funded>>

\* lines 215-246, called at line 348. outcome is what the two awaits do:
\* the merchant lookup may raise; the POST may go through or raise. Every
\* exception is caught at line 245.
WebhookOutcomes == {"lookup_error", "posted", "post_error"}

\* (mutant) a notifier that puts the payment back to pending when the
\* delivery fails, to have it retried by the next scan
SendWebhookRevertOnFailure(l, outcome) ==
  /\ pc[l] = "webhook"
  /\ LET transaction == updated_tx[l][1] IN
       /\ notifier_calls' = [notifier_calls EXCEPT ![transaction.id][l] = @ + 1]
       /\ transactions' =
            IF outcome = "posted" THEN transactions
            ELSE [transactions EXCEPT ![transaction.id].status = "pending",
                                      ![transaction.id].confirmed_at = None]
  /\ NextRecord(l)
  /\ UNCHANGED <<webhook_posts, webhook_payloads, never_funded>>

\* (mutant) a notifier without its try/except: a failed lookup or POST
\* reaches the except of the listener loop, which drops the batch
SendWebhookPropagates(l, outcome) ==
  /\ pc[l] = "webhook"
  /\ notifier_calls' = [notifier_calls EXCEPT ![updated_tx[l][1].id][l] = @ + 1]
  /\ IF outcome = "posted"
     THEN NextRecord(l)
     ELSE /\ pc' = [pc EXCEPT ![l] = "sleep30"]
          /\ idx' = [idx EXCEPT ![l] = 0]
          /\ pending_txs' = [pending_txs EXCEPT ![l] = << >>]
          /\ updated_tx' = [updated_tx EXCEPT ![l] = None]
          /\ UNCHANGED accounts
  /\ UNCHANGED <<transactions, webhook_posts, webhook_payloads, never_funded>>

\* (mutant) a notifier without the check of line 219 for the webhook_url
SendWebhookWithoutUrlCheck(l, outcome) ==
  /\ pc[l] = "webhook"
  /\ LET transaction == updated_tx[l][1]
         sends == outcome # "lookup_error"
     IN /\ notifier_calls' = [notifier_calls EXCEPT ![transaction.id][l] = @ + 1]
        /\ webhook_posts' = [webhook_posts EXCEPT
              ![transaction.id] = IF sends THEN @ + 1 ELSE @]
        /\ webhook_payloads' = [webhook_payloads EXCEPT
              ![transaction.id] =
                 IF sends THEN @ \cup {WebhookPayloadOf(transaction)} ELSE @]
  /\ NextRecord(l)
  /\ UNCHANGED <<transactions, never_funded>>

SendWebhookToMerchant(l, outcome) ==
  /\ pc[l] = "webhook"
  /\ LET transaction == updated_tx[l][1]
         merchant == FindOne(merchants,
                       {i \in DOMAIN merchants :
                          merchants[i].merchant_id = transaction.merchant_id})
         sends == /\ outcome # "lookup_error"
                  /\ merchant # None
                  /\ merchant[1].webhook_url # ""
     IN /\ notifier_calls' = [notifier_calls EXCEPT ![transaction.id][l] = @ + 1]
        /\ webhook_posts' = [webhook_posts EXCEPT
              ![transaction.id] = IF sends THEN @ + 1 ELSE @]
        /\ webhook_payloads' = [webhook_payloads EXCEPT
              ![transaction.id] =
                 IF sends THEN @ \cup {WebhookPayloadOf(transaction)} ELSE @]
  /\ NextRecord(l)
  /\ UNCHANGED <<transactions, never_funded>>

\* lines 303 and 306: the sleep is over, back to the top of the while loop
Sleep15Over(l) ==
  /\ pc[l] = "sleep15"
  /\ pc' = [pc EXCEPT ![l] = "fetch"]
  /\ UNCHANGED <<transactions, pending_txs, idx, accounts, updated_tx,
                 history_vars, never_funded>>

Sleep30Over(l) ==
  /\ pc[l] = "sleep30"
  /\ pc' = [pc EXCEPT ![l] = "fetch"]
  /\ UNCHANGED <<transactions, pending_txs, idx, accounts, updated_tx,
                 history_vars, never_funded>>

ListenerStep(l) ==
  \/ FetchPending(l)
  \/ FetchPendingFails(l)
  \/ \E accts \in AccountLists : GetTokenAccounts(l, accts)
  \/ GetTokenAccountsFails(l)
  \/ GetTokenAccountBalance(l)
  \/ GetTokenAccountBalanceFails(l)
  \/ \E now \in Times : UpdateOne(l, now)
  \/ UpdateOneFails(l)
  \/ FindUpdated(l)
  \/ FindUpdatedFails(l)
  \/ \E outcome \in WebhookOutcomes : SendWebhookToMerchant(l, outcome)
  \/ Sleep15Over(l)
  \/ Sleep30Over(l)

\* --------------------------------------------------------------- API reads
\* (mutant) a find_one on the payment_id alone, without the merchant_id
GetPaymentOfAnyMerchant(x_api_key, payment_id) ==
  LET merchant == AuthenticateMerchant(x_api_key) IN
  IF merchant = None THEN [code |-> 401, detail |-> "Invalid API key"]
  ELSE LET transaction == FindOne(transactions,
               {i \in DOMAIN transactions : transactions[i].payment_id = payment_id})
       IN IF transaction = None
          THEN [code |-> 404, detail |-> "Payment not found"]
          ELSE [code |-> 200, success |-> TRUE, payment |-> PaymentOf(transaction[1])]

\* GET /api/payments/{payment_id}: what the handler answers
GetPaymentResponse(x_api_key, payment_id) ==
  LET merchant == AuthenticateMerchant(x_api_key) IN
  IF merchant = None THEN [code |-> 401, detail |-> "Invalid API key"]
  ELSE LET transaction == FindOne(transactions,
               {i \in DOMAIN transactions :
                  /\ transactions[i].payment_id = payment_id
                  /\ transactions[i].merchant_id = merchant[1].merchant_id})
       IN IF transaction = None
          THEN [code |-> 404, detail |-> "Payment not found"]
          ELSE [code |-> 200, success |-> TRUE, payment |-> PaymentOf(transaction[1])]

\* GET /api/payments/{payment_id} writes nothing: the handler only reads
GetPayment(x_api_key, payment_id) ==
  /\ GetPaymentResponse(x_api_key, payment_id).code \in {200, 401, 404}
  /\ UNCHANGED vars

\* lines 179-181: the documents the query of list_payments matches; an
\* absent or empty status adds no condition
ListQueryMatches(merchant_id, status) ==
  {i \in DOMAIN transactions :
     /\ transactions[i].merchant_id = merchant_id
     /\ (status # None /\ status[1] # "") => transactions[i].status = status[1]}

\* line 187, sort("created_at", -1): the orders the cursor can deliver the
\* documents S in; the order of documents with equal created_at is not fixed
SortedByCreatedAtDesc(S) ==
  {f \in [1..Cardinality(S) -> S] :
     \A a, b \in 1..Cardinality(S) :
       a < b => /\ f[a] # f[b]
                /\ transactions[f[a]].created_at >= transactions[f[b]].created_at}

\* line 187, skip(offset).limit(limit), for offset >= 0 and limit > 0
SkipLimit(f, offset, limit) ==
  [n \in 1..(IF Len(f) - offset < limit
             THEN (IF Len(f) > offset THEN Len(f) - offset ELSE 0)
             ELSE limit) |-> f[offset + n]]

\* GET /api/payments: the answers the handler can give
ListPaymentsResponses(x_api_key, status, limit, offset) ==
  LET merchant == AuthenticateMerchant(x_api_key) IN
  IF merchant = None THEN {[code |-> 401, detail |-> "Invalid API key"]}
  ELSE LET query == ListQueryMatches(merchant[1].merchant_id, status)
           total == Cardinality(query)
       IN {[code |-> 200, success |-> TRUE,
            payments |-> [n \in DOMAIN SkipLimit(f, offset, limit) |->
                            PaymentOf(transactions[SkipLimit(f, offset, limit)[n]])],
            pagination |-> [total |-> total, limit |-> limit, offset |-> offset]]
           : f \in SortedByCreatedAtDesc(query)}

\* GET /api/payments writes nothing: count_documents and find only read
ListPayments(x_api_key, status, limit, offset) ==
  /\ \E r \in ListPaymentsResponses(x_api_key, status, limit, offset) :
        r.code \in {200, 401}
  /\ UNCHANGED vars

ApiKeys == {r.x_api_key : r \in PaymentRequests}
PaymentIds == {r.payment_id : r \in PaymentRequests}
\* the query parameters of GET /api/payments: the defaults of lines 174-176,
\* and pages of one payment
StatusFilters == {None, <<"">>, <<"confirmed">>}
ListQueries ==
  {[status |-> None, limit |-> 10, offset |-> 0],
   [status |-> <<"confirmed">>, limit |-> 1, offset |-> 1]}

PageLimits == {1, 10}
PageOffsets == {0, 1}

ApiRead ==
  \/ \E k \in ApiKeys, p \in PaymentIds : GetPayment(k, p)
  \/ \E k \in ApiKeys, q \in ListQueries : ListPayments(k, q.status, q.limit, q.offset)

\* --------------------------------------------------------------------- Spec
\* Two server processes, each with its listener task, and the API. The two
\* GET handlers write nothing: their steps leave every variable as it is,
\* so they are steps of this specification already; SpecReads has them as
\* actions.
Next ==
  \/ /\ Len(transactions) < MaxOverlapPayments
     /\ \E r \in PaymentRequests, now \in Times :
          CreatePayment(r.x_api_key, r.payment_id, r.amount, r.metadata, now)
  \/ \E l \in Listeners : ListenerStep(l)

Spec == Init /\ [][Next]_vars

\* One server process: the single listener task the code starts, and the API.
NextSingle ==
  \/ /\ Len(transactions) < MaxPayments
     /\ \E r \in PaymentRequests, now \in Times :
          CreatePayment(r.x_api_key, r.payment_id, r.amount, r.metadata, now)
  \/ ListenerStep("L1")

SpecSingle == Init /\ [][NextSingle]_vars

\* One server process and the whole API: payments are created, paid in full
\* and confirmed while the merchants read them.
NextReads ==
  \/ /\ Len(transactions) < MaxPayments
     /\ \E r \in PaymentRequests, now \in Times :
          CreatePayment(r.x_api_key, r.payment_id, r.amount, r.metadata, now)
  \/ ApiRead
  \/ FetchPending("L1")
  \/ GetTokenAccounts("L1", <<10000000>>)
  \/ GetTokenAccountBalance("L1")
  \/ \E now \in Times : UpdateOne("L1", now)
  \/ FindUpdated("L1")
  \/ SendWebhookToMerchant("L1", "posted")
  \/ Sleep15Over("L1")

SpecReads == Init /\ [][NextReads]_vars

\* The event loop keeps running the listener task: every await of the loop
\* returns or raises (the sleeps end, the database and RPC clients time out).
SpecLive == Init /\ [][NextSingle]_vars /\ WF_vars(ListenerStep("L1"))

TypeOK ==
  /\ \A l \in Listeners : pc[l] \in {"fetch", "get_accounts", "get_balance", "update",
                                     "find_updated", "webhook", "sleep15", "sleep30"}
  /\ \A i \in DOMAIN transactions : transactions[i].id = i
  /\ Len(notifier_calls) = Len(transactions)
  /\ Len(never_funded) = Len(transactions)

\* ----------------------------------------------------------- a full store
\* One server process whose store already holds more pending payments than
\* one fetch returns: payment 1 and the last payment have been paid in full
\* (the ledger reports 10.00 for them at every query), the ListenerBatch
\* payments between them have not.
BulkSize == ListenerBatch + 2
BulkPaid == {1, BulkSize}

BulkReports(w) ==
  IF w \in BulkPaid THEN {<<10000000>>} ELSE {<< >>, <<9999999>>}

\* the n-th document, as create_payment inserted it
BulkRecord(n) ==
  [id |-> n, merchant_id |-> "MERCH_a", payment_id |-> n,
   wallet_address |-> n, amount |-> 10000000, status |-> "pending",
   tx_signature |-> None, created_at |-> 0, confirmed_at |-> None,
   metadata |-> None]

InitBulk ==
  /\ transactions = [n \in 1..BulkSize |-> BulkRecord(n)]
  /\ pc = [l \in Listeners |-> "fetch"]
  /\ pending_txs = [l \in Listeners |-> << >>]
  /\ idx = [l \in Listeners |-> 0]
  /\ accounts = [l \in Listeners |-> << >>]
  /\ updated_tx = [l \in Listeners |-> None]
  /\ notifier_calls = [n \in 1..BulkSize |-> [l \in Listeners |-> 0]]
  /\ webhook_posts = [n \in 1..BulkSize |-> 0]
  /\ webhook_payloads = [n \in 1..BulkSize |-> {}]
  /\ never_funded = [n \in 1..BulkSize |-> TRUE]

\* No call fails in these runs.
NextBulk ==
  \/ FetchPending("L1")
  \/ /\ pc["L1"] = "get_accounts"
     /\ \E accts \in BulkReports(CurrentTx("L1").wallet_address) :
          GetTokenAccounts("L1", accts)
  \/ GetTokenAccountBalance("L1")
  \/ UpdateOne("L1", 1)
  \/ FindUpdated("L1")
  \/ SendWebhookToMerchant("L1", "posted")
  \/ Sleep15Over("L1")

SpecBulk == InitBulk /\ [][NextBulk]_vars

\* ------------------------------------------------------- a ledger outage
\* The same full store while the ledger RPC is out for all wallets but
\* one: the queries for wallet 2 report 10.00, every query for another
\* wallet raises, at line 316 or, after line 316 answered, at line 328.
OutageSpared == {2}

NextOutage ==
  \/ FetchPending("L1")
  \/ /\ pc["L1"] = "get_accounts"
     /\ CurrentTx("L1").wallet_address \in OutageSpared
     /\ GetTokenAccounts("L1", <<10000000>>)
  \/ /\ pc["L1"] = "get_accounts"
     /\ CurrentTx("L1").wallet_address \notin OutageSpared
     /\ GetTokenAccountsFails("L1")
  \/ /\ pc["L1"] = "get_accounts"
     /\ CurrentTx("L1").wallet_address \notin OutageSpared
     /\ GetTokenAccounts("L1", <<9999999>>)
  \/ /\ pc["L1"] = "get_balance"
     /\ CurrentTx("L1").wallet_address \in OutageSpared
     /\ GetTokenAccountBalance("L1")
  \/ /\ pc["L1"] = "get_balance"
     /\ CurrentTx("L1").wallet_address \notin OutageSpared
     /\ GetTokenAccountBalanceFails("L1")
  \/ UpdateOne("L1", 1)
  \/ FindUpdated("L1")
  \/ SendWebhookToMerchant("L1", "posted")
  \/ Sleep15Over("L1")

SpecOutage == InitBulk /\ [][NextOutage]_vars

\* ==================================================================== claims
RECURSIVE SumOver(_, _)
SumOver(f, S) ==
  IF S = {} THEN 0
  ELSE LET x == CHOOSE y \in S : TRUE IN f[x] + SumOver(f, S \ {x})

\* calls of the notifier for payment i, by all listeners
NotifierCalls(i) == SumOver(notifier_calls[i], Listeners)

Stored(id) == transactions[id]

\* C1: the confirm step is a compare-and-swap on status: an update_one that
\* finds the record already confirmed writes nothing and does not go on as
\* if the transition had occurred (only the invocation that found the record
\* pending goes on to the find_one and the notifier).
C1_ConfirmIsCompareAndSwap ==
  [][\A l \in Listeners :
       (/\ pc[l] = "update"
        /\ pc'[l] # "update"
        /\ Stored(CurrentTx(l).id).status = "confirmed")
       => (transactions' = transactions /\ pc'[l] # "find_updated")]_vars

\* C2: of two overlapping poll cycles that both saw enough balance for a
\* record, only one calls the notifier for it: no payment has notifier calls
\* from two listeners.
C2_OneListenerNotifies ==
  \A i \in DOMAIN transactions :
    Cardinality({l \in Listeners : notifier_calls[i][l] > 0}) <= 1

\* C3: for every payment record, confirmed_at is non-null if and only if
\* status is "confirmed".
C3_ConfirmedAtIffConfirmed ==
  \A i \in DOMAIN transactions :
    (transactions[i].confirmed_at # None) <=> (transactions[i].status = "confirmed")

\* C3 witness: a confirmed record carrying a confirmed_at, written while the
\* other listener still holds the record in its batch.
C3_Witness ==
  \E i \in DOMAIN transactions, l \in Listeners :
    /\ transactions[i].status = "confirmed"
    /\ transactions[i].confirmed_at = <<1>>
    /\ pc[l] = "update" /\ CurrentTx(l).id = i

\* C4: status is monotonic: no step changes a confirmed record back to
\* pending (or removes it).
C4_StatusMonotonic ==
  [][\A i \in DOMAIN transactions :
       transactions[i].status = "confirmed"
       => (i \in DOMAIN transactions' /\ transactions'[i].status = "confirmed")]_vars

\* C4 witness: a payment is confirmed, its notifier call is over, and a
\* listener with a stale batch is still working on it.
C4_Witness ==
  \E i \in DOMAIN transactions, l \in Listeners :
    /\ transactions[i].status = "confirmed"
    /\ NotifierCalls(i) >= 1
    /\ pc[l] \in {"get_accounts", "get_balance", "update"}
    /\ CurrentTx(l).id = i

\* C5: confirmed_at is written once: once it is set, no step changes it.
C5_ConfirmedAtWrittenOnce ==
  [][\A i \in DOMAIN transactions :
       transactions[i].confirmed_at # None
       => transactions'[i].confirmed_at = transactions[i].confirmed_at]_vars

\* C6: no false confirmation: as long as every ledger report for a payment
\* showed no token account or a first balance strictly below its amount, the
\* payment is pending and the notifier has not been called for it.
C6_NoFalseConfirmation ==
  \A i \in DOMAIN transactions :
    never_funded[i] =>
      /\ transactions[i].status = "pending"
      /\ transactions[i].confirmed_at = None
      /\ NotifierCalls(i) = 0
      /\ webhook_posts[i] = 0

\* C6 witness: the ledger has just reported 9.999999 for a payment of 10.00
\* (and never more), and the listener is past the query of line 316.
C6_Witness ==
  \E l \in Listeners :
    /\ pc[l] = "get_balance"
    /\ accounts[l][1] = 9999999
    /\ CurrentTx(l).amount = 10000000
    /\ never_funded[CurrentTx(l).id]
    /\ Stored(CurrentTx(l).id).status = "pending"

\* C7: a pending record for which the ledger reports enough is confirmed by
\* the next pass, however many other pending records there are: when the
\* listener sleeps after a pass, every payment paid in full is confirmed.
C7_NextPassConfirms ==
  pc["L1"] = "sleep15" =>
    \A i \in DOMAIN transactions :
      (\A accts \in BulkReports(transactions[i].wallet_address) :
         accts # << >> /\ accts[1] >= transactions[i].amount)
      => transactions[i].status = "confirmed"

\* C8: the store never holds two records with the same
\* (merchant_id, payment_id).
C8_UniqueExternalId ==
  \A i, j \in DOMAIN transactions :
    (/\ transactions[i].merchant_id = transactions[j].merchant_id
     /\ transactions[i].payment_id = transactions[j].payment_id) => i = j

\* C9: every confirmation is handed to the notifier within the step that
\* made it: a confirmed payment has had a notifier call, or a listener is
\* still between the update_one and the notifier call for it.
C9_ConfirmedIsNotified ==
  \A i \in DOMAIN transactions :
    transactions[i].status = "confirmed" =>
      \/ NotifierCalls(i) >= 1
      \/ \E l \in Listeners :
           /\ pc[l] \in {"find_updated", "webhook"}
           /\ CurrentTx(l).id = i

\* C10: with a single listener task, the notifier is called at most once per
\* payment, over any number of scan cycles and whatever the deliveries did.
C10_AtMostOneCallPerPayment ==
  \A i \in DOMAIN transactions : NotifierCalls(i) <= 1

\* C10 witness: payment 1 was confirmed and notified in an earlier scan, and
\* the batch of the present scan starts with payment 2: the fetch left the
\* confirmed record out.
C10_Witness ==
  /\ Len(transactions) >= 2
  /\ NotifierCalls(1) = 1
  /\ pc["L1"] = "get_accounts"
  /\ pending_txs["L1"][1].id = 2

\* the step of listener l that follows a call of check_payment_received:
\* the next record of the same batch, or the 15 s sleep after the last one
ScanGoesOn(l) ==
  IF idx[l] < Len(pending_txs[l])
  THEN /\ pc'[l] = "get_accounts"
       /\ idx'[l] = idx[l] + 1
       /\ pending_txs'[l] = pending_txs[l]
  ELSE pc'[l] = "sleep15"

MerchantOf(i) ==
  FindOne(merchants, {k \in DOMAIN merchants :
                        merchants[k].merchant_id = transactions[i].merchant_id})

\* C11: whatever the notifier's merchant lookup and POST do, the step of
\* send_webhook_to_merchant writes nothing to the store (the payment stays
\* confirmed with its confirmed_at) and the scan goes on with the next
\* record of the batch.
C11_NotifierFailureIsContained ==
  [][\A l \in Listeners :
       (pc[l] = "webhook" /\ pc'[l] # "webhook")
       => /\ transactions' = transactions
          /\ Stored(updated_tx[l][1].id).status = "confirmed"
          /\ Stored(updated_tx[l][1].id).confirmed_at # None
          /\ ScanGoesOn(l)]_vars

\* C11 witness: the notifier was called for payment 1 of a merchant with a
\* webhook URL and made no POST (its merchant lookup failed); payment 1 is
\* confirmed and the scan is at the second record of the same batch.
C11_Witness ==
  /\ Len(transactions) >= 2
  /\ MerchantOf(1)[1].webhook_url # ""
  /\ notifier_calls[1]["L1"] = 1
  /\ webhook_posts[1] = 0
  /\ transactions[1].status = "confirmed"
  /\ pc["L1"] = "get_accounts"
  /\ idx["L1"] = 2
  /\ pending_txs["L1"][1].id = 1

\* C12: a failed ledger query leaves its record pending and unchanged, does
\* not stop the scan (the listener never takes the 30 s error path, and the
\* paid payment behind the failing first record is confirmed by the end of
\* the pass), and every batch holds again the records whose queries failed.
C12_LedgerFailureIsContained ==
  /\ \A i \in DOMAIN transactions \ OutageSpared : transactions[i] = BulkRecord(i)
  /\ pc["L1"] # "sleep30"
  /\ pc["L1"] = "sleep15" => \A i \in OutageSpared : transactions[i].status = "confirmed"
  /\ pc["L1"] \in {"get_accounts", "get_balance", "update", "find_updated", "webhook"}
       => \A i \in (1..ListenerBatch) \ OutageSpared :
            \E k \in DOMAIN pending_txs["L1"] : pending_txs["L1"][k].id = i

\* C12 witness: a later cycle: payment 2 was confirmed by an earlier pass in
\* which the queries for payment 1 failed, and the scan is again at payment 1.
C12_Witness ==
  /\ transactions[2].status = "confirmed"
  /\ pc["L1"] = "get_accounts"
  /\ idx["L1"] = 1
  /\ CurrentTx("L1").id = 1
  /\ transactions[1].status = "pending"

\* C13: the listener loop never ends: it sleeps 15 s only after a batch (or
\* an empty fetch), sleeps 30 s only after the fetch raised, both sleeps lead
\* back to the fetch, and from every state a new scan starts again.
C13_ListenerKeepsScanning ==
  /\ [][/\ (pc'["L1"] = "sleep30" /\ pc["L1"] # "sleep30") => pc["L1"] = "fetch"
        /\ (pc'["L1"] = "sleep15" /\ pc["L1"] # "sleep15")
             => \/ pc["L1"] = "fetch" /\ FindPending(transactions) = << >>
                \/ pc["L1"] \notin {"fetch", "sleep30"} /\ idx["L1"] = Len(pending_txs["L1"])
        /\ pc["L1"] \in {"sleep15", "sleep30"} => pc'["L1"] \in {pc["L1"], "fetch"}]_vars
  /\ (pc["L1"] = "sleep15") ~> (pc["L1"] = "fetch")
  /\ (pc["L1"] = "sleep30") ~> (pc["L1"] = "fetch")
  /\ []<>(pc["L1"] = "fetch")

\* C13 witness: the listener sleeps after an exception while a payment is
\* pending.
C13_Witness ==
  /\ pc["L1"] = "sleep30"
  /\ \E i \in DOMAIN transactions : transactions[i].status = "pending"

\* C14: every webhook payload built for a payment has the event
\* "payment.confirmed", the status "confirmed", a confirmation time, and the
\* id, payment_id, wallet_address, amount and metadata of the stored record.
C14_PayloadMatchesRecord ==
  \A i \in DOMAIN webhook_payloads : \A p \in webhook_payloads[i] :
    /\ p.event = "payment.confirmed"
    /\ p.payment.status = "confirmed"
    /\ p.payment.confirmed_at # None
    /\ p.payment.id = Stored(i).id
    /\ p.payment.payment_id = Stored(i).payment_id
    /\ p.payment.wallet_address = Stored(i).wallet_address
    /\ p.payment.amount = Stored(i).amount
    /\ p.payment.metadata = Stored(i).metadata

\* C14 witness: a payload was built for a payment that carries metadata.
C14_Witness ==
  \E i \in DOMAIN webhook_payloads :
    /\ webhook_payloads[i] # {}
    /\ transactions[i].metadata # None

\* C15: for a payment whose merchant has no webhook URL (or has no merchant
\* record) the notifier builds and posts nothing, and once it has been
\* called the payment is, and stays, confirmed.
C15_NoUrlNoDelivery ==
  \A i \in DOMAIN transactions :
    (MerchantOf(i) = None \/ MerchantOf(i)[1].webhook_url = "")
      => /\ webhook_posts[i] = 0
         /\ webhook_payloads[i] = {}
         /\ NotifierCalls(i) >= 1
              => Stored(i).status = "confirmed" /\ Stored(i).confirmed_at # None

\* C15 witness: the notifier returned for a confirmed payment of the merchant
\* without webhook URL, and the listener went on.
C15_Witness ==
  \E i \in DOMAIN transactions :
    /\ MerchantOf(i) # None
    /\ MerchantOf(i)[1].webhook_url = ""
    /\ NotifierCalls(i) >= 1
    /\ webhook_posts[i] = 0
    /\ transactions[i].status = "confirmed"
    /\ pc["L1"] \in {"sleep15", "get_accounts"}

\* C16: within a pass the steps come in the order query, confirm, notify:
\* the notifier is called only for a payment whose stored status is
\* confirmed, a listener reaches its update only from a balance query of the
\* same record that returned at least the amount, the store is written only
\* by that update, and the notifier follows the update and its read-back.
C16_QueryConfirmNotify ==
  [][/\ \A i \in DOMAIN transactions : \A l \in Listeners :
          notifier_calls'[i][l] # notifier_calls[i][l]
            => /\ Stored(i).status = "confirmed"
               /\ pc[l] = "webhook"
     /\ \A l \in Listeners :
          /\ (pc'[l] = "update" /\ pc[l] # "update")
               => /\ pc[l] = "get_balance"
                  /\ accounts[l] # << >>
                  /\ accounts[l][1] >= CurrentTx(l).amount
                  /\ idx'[l] = idx[l]
                  /\ pending_txs'[l] = pending_txs[l]
          /\ (pc'[l] = "get_balance" /\ pc[l] # "get_balance") => pc[l] = "get_accounts"
          /\ (pc'[l] = "find_updated" /\ pc[l] # "find_updated") => pc[l] = "update"
          /\ (pc'[l] = "webhook" /\ pc[l] # "webhook")
               => pc[l] = "find_updated" /\ idx'[l] = idx[l]
     /\ \A i \in DOMAIN transactions :
          transactions'[i] # transactions[i]
            => \E l \in Listeners :
                 /\ pc[l] = "update"
                 /\ pc'[l] = "find_updated"
                 /\ CurrentTx(l).id = i]_vars

\* C16 witness: a listener is about to call the notifier for the payment it
\* has just confirmed after a sufficient balance.
C16_Witness ==
  \E l \in Listeners :
    /\ pc[l] = "webhook"
    /\ updated_tx[l] # None
    /\ updated_tx[l][1].status = "confirmed"
    /\ updated_tx[l][1].id = CurrentTx(l).id
    /\ transactions[CurrentTx(l).id].status = "confirmed"

\* C17: a step that writes the store without inserting is the confirm step
\* of one listener: it sets status and confirmed_at of the record the
\* listener is at, leaves the other fields of that record as they were, and
\* leaves every other record as it was.
C17_ConfirmWritesTwoFields ==
  [][(transactions' # transactions /\ Len(transactions') = Len(transactions))
       => \E l \in Listeners : \E t \in Times :
            /\ pc[l] = "update"
            /\ transactions'[CurrentTx(l).id] =
                 [transactions[CurrentTx(l).id] EXCEPT !.status = "confirmed",
                                                       !.confirmed_at = <<t>>]
            /\ \A j \in DOMAIN transactions :
                 j # CurrentTx(l).id => transactions'[j] = transactions[j]]_vars

\* C17 witness: a payment has just been confirmed next to another payment,
\* carrying metadata, that is still pending.
C17_Witness ==
  \E i, j \in DOMAIN transactions :
    /\ i # j
    /\ pc["L1"] = "find_updated"
    /\ CurrentTx("L1").id = i
    /\ transactions[i].status = "confirmed"
    /\ transactions[j].status = "pending"
    /\ transactions[j].metadata # None

\* C18: the decision after the balance query depends on the balance of the
\* first token account alone: the listener goes on to the update only when
\* that balance is at least the amount, whatever the other accounts hold,
\* and the query itself writes nothing.
C18_FirstAccountDecides ==
  [][\A l \in Listeners :
       (pc[l] = "get_balance" /\ pc'[l] # "get_balance")
         => /\ transactions' = transactions
            /\ accounts[l][1] < CurrentTx(l).amount
                 => pc'[l] \in {"get_accounts", "sleep15"}]_vars

\* C18 witness: the wallet has two token accounts, the first one short of
\* the amount, both together above it, and the balance query is next.
C18_Witness ==
  \E l \in Listeners :
    /\ pc[l] = "get_balance"
    /\ Len(accounts[l]) = 2
    /\ accounts[l][1] < CurrentTx(l).amount
    /\ accounts[l][1] + accounts[l][2] >= CurrentTx(l).amount
    /\ Stored(CurrentTx(l).id).status = "pending"

\* C19: the reads are isolated by merchant: a payment returned by
\* get_payment or listed by list_payments is a stored record of the
\* authenticated merchant, the total counts that merchant's matching records
\* alone, and a payment_id that exists only under another merchant is
\* answered with 404 "Payment not found".
C19_ReadsAreIsolated ==
  /\ \A k \in ApiKeys, p \in PaymentIds :
       LET r == GetPaymentResponse(k, p)
           m == AuthenticateMerchant(k)
       IN /\ r.code = 200
               => /\ m # None
                  /\ Stored(r.payment.id).merchant_id = m[1].merchant_id
                  /\ r.payment = PaymentOf(Stored(r.payment.id))
                  /\ r.payment.payment_id = p
          /\ (/\ m # None
              /\ \A i \in DOMAIN transactions :
                   transactions[i].payment_id = p
                     => transactions[i].merchant_id # m[1].merchant_id)
               => r = [code |-> 404, detail |-> "Payment not found"]
          /\ m = None => r.code = 401
  /\ \A k \in ApiKeys, st \in StatusFilters, limit \in PageLimits, offset \in PageOffsets :
       \A r \in ListPaymentsResponses(k, st, limit, offset) :
         LET m == AuthenticateMerchant(k) IN
         /\ m = None => r.code = 401
         /\ r.code = 200
              => /\ m # None
                 /\ \A n \in DOMAIN r.payments :
                      /\ Stored(r.payments[n].id).merchant_id = m[1].merchant_id
                      /\ r.payments[n] = PaymentOf(Stored(r.payments[n].id))
                 /\ r.pagination.total <=
                      Cardinality({i \in DOMAIN transactions :
                                     transactions[i].merchant_id = m[1].merchant_id})

\* C19 witness: the payment_id 1 exists under MERCH_a only: MERCH_b is
\* answered 404 for it and lists nothing, MERCH_a gets and lists it.
C19_Witness ==
  /\ \E i \in DOMAIN transactions :
       transactions[i].merchant_id = "MERCH_a" /\ transactions[i].payment_id = 1
  /\ \A i \in DOMAIN transactions : transactions[i].merchant_id # "MERCH_b"
  /\ GetPaymentResponse("key-b", 1).code = 404
  /\ GetPaymentResponse("key-a", 1).code = 200
  /\ \A r \in ListPaymentsResponses("key-b", None, 10, 0) : r.payments = << >>
  /\ \E r \in ListPaymentsResponses("key-a", None, 10, 0) : Len(r.payments) >= 1

====
